---- MODULE Spec2Model ----
(***************************************************************************)
(* A model of face-api.js's input coercion (src/src/toNetInput.ts) and of  *)
(* the full face-description pipeline (src/src/allFacesFactory.ts).        *)
(*                                                                         *)
(* toNetInput is an async function: everything up to its single await runs *)
(* in the calling step, the media loads complete one by one in any order,  *)
(* and the continuation after the await builds the NetInput.               *)
(***************************************************************************)
EXTENDS Integers, Sequences, FiniteSets, TLC

(***************************************************************************)
(* Bounds of the model.                                                    *)
(***************************************************************************)
MaxLen == 2        \* longest input array handed to toNetInput
MaxBatch == 2      \* largest batch size of a 4D tensor
MaxResubmit == 2   \* how often a returned NetInput is handed to toNetInput again

(***************************************************************************)
(* The values of TNetInput.  An element is a tagged variant: kind is what  *)
(* the runtime type tests of the code see, v is the identity of the        *)
(* object, batch is shape[0] of a 4D tensor (0 for everything else).       *)
(***************************************************************************)
Elem(kind, v, batch) == [kind |-> kind, v |-> v, batch |-> batch]

MediaEls == {"img"}                 \* media elements handed in directly
Ids == {"idOk", "idBad"}            \* element ids handed in as strings
Dom == [id \in {"idOk"} |-> "canvas"]   \* the document: id -> media element
Tensors3D == {"t3"}
Tensors4D == {"t4"}
BatchSizes == 0..MaxBatch

Null == Elem("null", "null", 0)

RawElements ==
  {Elem("media", m, 0) : m \in MediaEls}
    \cup {Elem("string", s, 0) : s \in Ids}
    \cup {Elem("t3", t, 0) : t \in Tensors3D}
    \cup {Elem("t4", t, b) : t \in Tensors4D, b \in BatchSizes}
    \cup {Elem("other", "obj", 0)}

RECURSIVE SeqsUpTo(_, _)
SeqsUpTo(S, n) ==
  IF n = 0 THEN {<<>>}
  ELSE LET shorter == SeqsUpTo(S, n - 1)
       IN  shorter \cup {Append(s, x) : s \in {q \in shorter : Len(q) = n - 1}, x \in S}

\* An argument of toNetInput that is not a NetInput: one value or an array.
RawInput(form, elems) == [form |-> form, ref |-> 0, elems |-> elems]
RawInputs ==
  {RawInput("single", <<e>>) : e \in RawElements}
    \cup {RawInput("array", a) : a \in SeqsUpTo(RawElements, MaxLen)}
\* An argument of toNetInput that is a NetInput instance: a reference.
NetInputRef(k) == [form |-> "netinput", ref |-> k, elems |-> <<>>]

isArray(inputs) == inputs.form = "array"
isNetInput(inputs) == inputs.form = "netinput"
isMediaElement(e) == e.kind = "media"
isTensor3D(e) == e.kind = "t3"
isTensor4D(e) == e.kind = "t4"
isString(e) == e.kind = "string"

\* resolveInput: a string is looked up in the document, anything else is itself.
resolveInput(e) ==
  IF isString(e)
  THEN IF e.v \in DOMAIN Dom THEN Elem("media", Dom[e.v], 0) ELSE Null
  ELSE e

\* new NetInput(inputs, isBatchInput): a fresh, unmanaged instance.
NetInput(inputs, isBatchInput) ==
  [inputs |-> inputs, isBatchInput |-> isBatchInput, managed |-> FALSE]
\* netInput.managed()
managed(netInput) == [netInput EXCEPT !.managed = TRUE]

\* A variant of afterCreate that never marks the instance managed.
afterCreateNeverManaged(netInput, manage) == netInput

\* afterCreate of toNetInput.
afterCreate(netInput, manage) == IF manage THEN managed(netInput) ELSE netInput

\* inputArgArray of toNetInput.
inputArgArray(inputs) == inputs.elems

\* A variant of getIdxHint that leaves the position out for an array of one.
getIdxHintIfSeveral(inputs, idx) ==
  IF isArray(inputs) /\ Len(inputArgArray(inputs)) > 1 THEN <<idx>> ELSE <<>>

\* getIdxHint: the text " at input index i:" (here <<i>>) or the empty text.
getIdxHint(inputs, idx) == IF isArray(inputs) THEN <<idx>> ELSE <<>>

NoError == [type |-> "none", hint |-> <<>>, batchSize |-> 0, id |-> ""]
Err(type, hint, batchSize, id) ==
  [type |-> type, hint |-> hint, batchSize |-> batchSize, id |-> id]

Min(S) == CHOOSE x \in S : \A y \in S : x <= y

\* The first map: resolveInput on every element.
resolved(inputs) ==
  [i \in 1..Len(inputArgArray(inputs)) |-> resolveInput(inputArgArray(inputs)[i])]

\* A variant of badBatch that accepts an empty batch (batchSize > 1 for batchSize !== 1).
badBatchOnlyLarger(inputs) ==
  {i \in 1..Len(inputArgArray(inputs)) :
     isTensor4D(resolveInput(inputArgArray(inputs)[i]))
       /\ resolveInput(inputArgArray(inputs)[i]).batch > 1}

\* The positions at which the second map throws: 4D tensors of batch size # 1.
badBatch(inputs) ==
  {i \in 1..Len(inputArgArray(inputs)) :
     isTensor4D(resolved(inputs)[i]) /\ resolved(inputs)[i].batch # 1}

\* input.reshape(input.shape.slice(1)): the 3D tensor of a 4D one.
reshape(e) == Elem("t3", e.v, 0)

\* A variant of inputArray that hands the elements on in reverse order.
inputArrayReversed(inputs) ==
  [i \in 1..Len(inputArgArray(inputs)) |->
     LET e == resolveInput(inputArgArray(inputs)[Len(inputArgArray(inputs)) + 1 - i])
     IN  IF isTensor4D(e) THEN reshape(e) ELSE e]

\* inputArray of toNetInput, when the second map does not throw.
inputArray(inputs) ==
  [i \in 1..Len(inputArgArray(inputs)) |->
     IF isTensor4D(resolved(inputs)[i]) THEN reshape(resolved(inputs)[i])
     ELSE resolved(inputs)[i]]

\* The positions at which the forEach throws.
badType(inputs) ==
  {i \in 1..Len(inputArgArray(inputs)) :
     ~isMediaElement(inputArray(inputs)[i]) /\ ~isTensor3D(inputArray(inputs)[i])}

\* A variant of validationError without the test for an empty array.
validationErrorNoEmptyTest(inputs) ==
  IF badBatch(inputs) # {}
  THEN LET i == Min(badBatch(inputs))
       IN  Err("batchSize", getIdxHint(inputs, i - 1), resolved(inputs)[i].batch, "")
  ELSE IF badType(inputs) # {}
  THEN LET i == Min(badType(inputs))
       IN  IF isString(inputArgArray(inputs)[i])
           THEN Err("unresolved", getIdxHint(inputs, i - 1), 0, inputArgArray(inputs)[i].v)
           ELSE Err("unsupported", getIdxHint(inputs, i - 1), 0, "")
  ELSE NoError

\* A variant of validationError that reports an unresolved id as any other
\* unsupported value.
validationErrorNoStringCase(inputs) ==
  IF Len(inputArgArray(inputs)) = 0
  THEN Err("empty", <<>>, 0, "")
  ELSE IF badBatch(inputs) # {}
  THEN LET i == Min(badBatch(inputs))
       IN  Err("batchSize", getIdxHint(inputs, i - 1), resolved(inputs)[i].batch, "")
  ELSE IF badType(inputs) # {}
  THEN LET i == Min(badType(inputs))
       IN  Err("unsupported", getIdxHint(inputs, i - 1), 0, "")
  ELSE NoError

\* A variant of validationError that makes both tests in one pass over the
\* elements, so that the lowest invalid position is reported whatever the test.
validationErrorInOnePass(inputs) ==
  IF Len(inputArgArray(inputs)) = 0
  THEN Err("empty", <<>>, 0, "")
  ELSE IF badBatch(inputs) \cup badType(inputs) # {}
  THEN LET i == Min(badBatch(inputs) \cup badType(inputs))
       IN  IF i \in badBatch(inputs)
           THEN Err("batchSize", getIdxHint(inputs, i - 1), resolved(inputs)[i].batch, "")
           ELSE IF isString(inputArgArray(inputs)[i])
           THEN Err("unresolved", getIdxHint(inputs, i - 1), 0, inputArgArray(inputs)[i].v)
           ELSE Err("unsupported", getIdxHint(inputs, i - 1), 0, "")
  ELSE NoError

\* The error the synchronous part of toNetInput throws, NoError when none.
\* Positions are those of the code: 0-based.
validationError(inputs) ==
  IF Len(inputArgArray(inputs)) = 0
  THEN Err("empty", <<>>, 0, "")
  ELSE IF badBatch(inputs) # {}
  THEN LET i == Min(badBatch(inputs))
       IN  Err("batchSize", getIdxHint(inputs, i - 1), resolved(inputs)[i].batch, "")
  ELSE IF badType(inputs) # {}
  THEN LET i == Min(badType(inputs))
       IN  IF isString(inputArgArray(inputs)[i])
           THEN Err("unresolved", getIdxHint(inputs, i - 1), 0, inputArgArray(inputs)[i].v)
           ELSE Err("unsupported", getIdxHint(inputs, i - 1), 0, "")
  ELSE NoError

\* The elements awaitMediaLoaded is called on.
mediaWaits(inputs) ==
  {i \in 1..Len(inputArgArray(inputs)) : isMediaElement(inputArray(inputs)[i])}

VARIABLES
  tniPc,        \* "idle", "awaiting", "returned", "failed"
  tniInputs,    \* the inputs argument of the call
  tniManage,    \* the manageCreatedInput argument of the call
  tniWaits,     \* positions whose awaitMediaLoaded promise was created
  tniLoaded,    \* positions whose awaitMediaLoaded promise has resolved
  tniLoadOrder, \* the positions in the order their loads finished
  tniResult,    \* the NetInput instance returned (a reference into heap), 0 when none
  tniError,     \* the error the call was rejected with
  heap,         \* the NetInput instances created so far
  resubmits     \* how often a NetInput was handed in again

tniVars == <<tniPc, tniInputs, tniManage, tniWaits, tniLoaded, tniLoadOrder, tniResult,
             tniError, heap, resubmits>>

\* The state of one call of the pipeline (allFacesFactory.ts).
VARIABLES
  afPc,                \* "idle", the await suspended at, "done", "failed"
  afInput,             \* the input argument
  afMinConfidence,     \* the minConfidence argument
  afMaxResults,        \* a third argument, if the caller passed one
  detectCall,          \* the arguments locateFaces was called with
  detections,
  faceTensors,
  faceLandmarksByFace,
  alignedFaceBoxes,
  alignedFaceTensors,
  recog,               \* per computeFaceDescriptor call: "pending", "resolved", "rejected"
  recogValue,          \* per resolved call: the descriptor it resolved with
  recogOrder,          \* the calls in the order they settled
  afResult,            \* the list the call returned
  afError,             \* the error the call was rejected with
  engine,              \* the tensor engine
  started,             \* the stages started, in order, with the input handed over
  stageErrors,         \* the errors the collaborators threw, in order
  inputDisposals       \* how often the pipeline disposed the input it was handed

afVars == <<afPc, afInput, afMinConfidence, afMaxResults, detectCall, detections,
            faceTensors, faceLandmarksByFace, alignedFaceBoxes, alignedFaceTensors,
            recog, recogValue, recogOrder, afResult, afError, engine, started,
            stageErrors, inputDisposals>>

tniInit ==
  /\ tniPc = "idle"
  /\ tniInputs = RawInput("array", <<>>)
  /\ tniManage = FALSE
  /\ tniWaits = {}
  /\ tniLoaded = {}
  /\ tniLoadOrder = <<>>
  /\ tniResult = 0
  /\ tniError = NoError
  /\ heap = <<>>
  /\ resubmits = 0

\* A variant of tniReturnSame that wraps the instance handed in into a new one.
tniReturnCopy(inputs, manage) ==
  /\ isNetInput(inputs)
  /\ heap' = Append(heap, afterCreate(heap[inputs.ref], manage))
  /\ tniPc' = "returned"
  /\ tniResult' = Len(heap) + 1
  /\ UNCHANGED <<tniWaits, tniLoaded, tniLoadOrder, tniError>>

\* toNetInput(inputs, manage) with inputs a NetInput: line 22-24.
tniReturnSame(inputs, manage) ==
  /\ isNetInput(inputs)
  /\ tniPc' = "returned"
  /\ tniResult' = inputs.ref
  /\ UNCHANGED <<heap, tniWaits, tniLoaded, tniLoadOrder, tniError>>

\* toNetInput(inputs, manage) with inputs one 4D tensor: line 30-32.
tniWrapTensor4D(inputs, manage) ==
  /\ ~isNetInput(inputs)
  /\ ~isArray(inputs) /\ isTensor4D(inputs.elems[1])
  /\ heap' = Append(heap, afterCreate(NetInput(inputs.elems, FALSE), manage))
  /\ tniResult' = Len(heap) + 1
  /\ tniPc' = "returned"
  /\ UNCHANGED <<tniWaits, tniLoaded, tniLoadOrder, tniError>>

\* A variant of tniThrow that starts the load-waits before it validates.
tniThrowAfterWaits(inputs, manage) ==
  /\ ~isNetInput(inputs)
  /\ ~(~isArray(inputs) /\ isTensor4D(inputs.elems[1]))
  /\ validationError(inputs) # NoError
  /\ tniError' = validationError(inputs)
  /\ tniWaits' = mediaWaits(inputs)
  /\ tniPc' = "failed"
  /\ UNCHANGED <<heap, tniLoaded, tniLoadOrder, tniResult>>

\* toNetInput(inputs, manage), validation throws: line 34-68.
tniThrow(inputs, manage) ==
  /\ ~isNetInput(inputs)
  /\ ~(~isArray(inputs) /\ isTensor4D(inputs.elems[1]))
  /\ validationError(inputs) # NoError
  /\ tniError' = validationError(inputs)
  /\ tniPc' = "failed"
  /\ UNCHANGED <<heap, tniWaits, tniLoaded, tniLoadOrder, tniResult>>

\* toNetInput(inputs, manage), validation passes and the call suspends at the
\* await with one awaitMediaLoaded promise per media element: line 34-73.
tniSuspend(inputs, manage) ==
  /\ ~isNetInput(inputs)
  /\ ~(~isArray(inputs) /\ isTensor4D(inputs.elems[1]))
  /\ validationError(inputs) = NoError
  /\ tniWaits' = mediaWaits(inputs)
  /\ tniLoaded' = {}
  /\ tniLoadOrder' = <<>>
  /\ tniPc' = "awaiting"
  /\ UNCHANGED <<heap, tniResult, tniError>>

\* The synchronous part of one call.
tniEnter(inputs, manage) ==
  /\ tniInputs' = inputs
  /\ tniManage' = manage
  /\ \/ tniReturnSame(inputs, manage)
     \/ tniWrapTensor4D(inputs, manage)
     \/ tniThrow(inputs, manage)
     \/ tniSuspend(inputs, manage)

\* A caller hands a value that is not a NetInput to toNetInput.
Call ==
  /\ tniPc = "idle"
  /\ \E inputs \in RawInputs, manage \in BOOLEAN : tniEnter(inputs, manage)
  /\ UNCHANGED <<resubmits, afVars>>

\* A caller hands the NetInput a call returned to toNetInput again.
CallAgain ==
  /\ tniPc = "returned"
  /\ resubmits < MaxResubmit
  /\ resubmits' = resubmits + 1
  /\ \E k \in 1..Len(heap), manage \in BOOLEAN : tniEnter(NetInputRef(k), manage)
  /\ UNCHANGED afVars

\* The media element at position i finishes loading.
MediaLoaded(i) ==
  /\ tniPc = "awaiting"
  /\ i \in tniWaits \ tniLoaded
  /\ tniLoaded' = tniLoaded \cup {i}
  /\ tniLoadOrder' = Append(tniLoadOrder, i)
  /\ UNCHANGED <<tniPc, tniInputs, tniManage, tniWaits, tniResult, tniError, heap,
                 resubmits, afVars>>

\* A variant of Resume that always builds the NetInput in array form.
ResumeAsArray ==
  /\ tniPc = "awaiting"
  /\ tniLoaded = tniWaits
  /\ heap' = Append(heap, afterCreate(NetInput(inputArray(tniInputs), TRUE), tniManage))
  /\ tniResult' = Len(heap) + 1
  /\ tniPc' = "returned"
  /\ UNCHANGED <<tniInputs, tniManage, tniWaits, tniLoaded, tniLoadOrder, tniError,
                 resubmits, afVars>>

\* A variant of Resume that goes on as soon as the first load has finished
\* (Promise.race for Promise.all).
ResumeAfterFirstLoad ==
  /\ tniPc = "awaiting"
  /\ tniWaits # {} => tniLoaded # {}
  /\ heap' = Append(heap, afterCreate(NetInput(inputArray(tniInputs), isArray(tniInputs)),
                                      tniManage))
  /\ tniResult' = Len(heap) + 1
  /\ tniPc' = "returned"
  /\ UNCHANGED <<tniInputs, tniManage, tniWaits, tniLoaded, tniLoadOrder, tniError,
                 resubmits, afVars>>

\* Promise.all has resolved; the call resumes after the await: line 75.
Resume ==
  /\ tniPc = "awaiting"
  /\ tniLoaded = tniWaits
  /\ heap' = Append(heap, afterCreate(NetInput(inputArray(tniInputs), isArray(tniInputs)),
                                      tniManage))
  /\ tniResult' = Len(heap) + 1
  /\ tniPc' = "returned"
  /\ UNCHANGED <<tniInputs, tniManage, tniWaits, tniLoaded, tniLoadOrder, tniError,
                 resubmits, afVars>>

NextToNetInput ==
  \/ Call
  \/ CallAgain
  \/ \E i \in 1..MaxLen : MediaLoaded(i)
  \/ Resume

(***************************************************************************)
(* The full pipeline: the function allFacesFactory returns.  It is an      *)
(* async function with five awaits; afPc names the await it is suspended   *)
(* at.  The nets and extractFaceTensors are collaborators: each call of    *)
(* one either completes or throws.                                         *)
(***************************************************************************)
MaxFaces == 2      \* most detections the detect stage returns

PipelineInputs == {"inA", "inB"}
\* The inputs that are NetInputs marked managed; the others are the caller's.
managedInputs == {"inB"}
MinConfidences == {"c50", "c80"}
Boxes == {"b1", "b2"}

\* The third argument of a call: none, or a number the caller passes.
NoMaxResults == [given |-> FALSE, n |-> 0]
MaxResultsArgs == {NoMaxResults} \cup {[given |-> TRUE, n |-> n] : n \in 1..MaxFaces}

NoCall == [input |-> "", minConfidence |-> "", maxResults |-> NoMaxResults]

\* A FaceDetection: getBox() is its box.
Detection(b) == [box |-> b]
getBox(detection) == detection.box

\* locateFaces(input, minConfidence, maxResults): the lists it may return.
locateFaces(call) ==
  {d \in SeqsUpTo({Detection(b) : b \in Boxes}, MaxFaces) :
     call.maxResults.given => Len(d) <= call.maxResults.n}

\* The tensor engine: the tensors allocated so far are 1..Len(disposed);
\* live are those not disposed, disposed[t] counts the dispose() calls on t.
NoTensors == [live |-> {}, disposed |-> <<>>]

\* extractFaceTensors(input, regions): one new tensor per region.
extractFaceTensors(eng, input, regions) ==
  [i \in 1..Len(regions) |->
     [id |-> Len(eng.disposed) + i, input |-> input, region |-> regions[i]]]
allocate(eng, n) ==
  [live |-> eng.live \cup (Len(eng.disposed) + 1..Len(eng.disposed) + n),
   disposed |-> eng.disposed \o [i \in 1..n |-> 0]]

\* t.dispose()
dispose(eng, t) ==
  [live |-> eng.live \ {t.id},
   disposed |-> [eng.disposed EXCEPT ![t.id] = @ + 1]]

\* A variant of forEachDispose that leaves the last tensor alone.
RECURSIVE forEachDisposeButLast(_, _)
forEachDisposeButLast(eng, ts) ==
  IF Len(ts) <= 1 THEN eng
  ELSE forEachDisposeButLast(dispose(eng, Head(ts)), Tail(ts))

\* tensors.forEach(t => t.dispose())
RECURSIVE forEachDispose(_, _)
forEachDispose(eng, ts) ==
  IF ts = <<>> THEN eng
  ELSE forEachDispose(dispose(eng, Head(ts)), Tail(ts))

\* What the nets compute, as terms: the landmarks of a face tensor, the box
\* landmarks.align(box) gives, landmarks.shiftByPoint(box), the descriptor
\* of a face tensor.
Landmarks(t) == [input |-> t.input, region |-> t.region]
align(landmarks, b) == [landmarks |-> landmarks, box |-> b]
shiftByPoint(landmarks, b) == [landmarks |-> landmarks, by |-> b]
Descriptor(t) == [input |-> t.input, region |-> t.region]

FullFaceDescription(detection, landmarks, descriptor) ==
  [detection |-> detection, landmarks |-> landmarks, descriptor |-> descriptor]

\* A variant of promiseAll that lists the values in the order they arrived.
promiseAllInArrivalOrder(values, order) ==
  [k \in DOMAIN values |-> values[order[k]]]

\* Promise.all of fulfilled promises: the values by position.
promiseAll(values, order) == [i \in DOMAIN values |-> values[i]]

NoStageError == [stage |-> "none", idx |-> 0]
StageError(stage, idx) == [stage |-> stage, idx |-> idx]

Started(stage, input) == [stage |-> stage, input |-> input]

afInit ==
  /\ afPc = "idle"
  /\ afInput = "inA"
  /\ afMinConfidence = "c50"
  /\ afMaxResults = NoMaxResults
  /\ detectCall = NoCall
  /\ detections = <<>>
  /\ faceTensors = <<>>
  /\ faceLandmarksByFace = <<>>
  /\ alignedFaceBoxes = <<>>
  /\ alignedFaceTensors = <<>>
  /\ recog = <<>>
  /\ recogValue = <<>>
  /\ recogOrder = <<>>
  /\ afResult = <<>>
  /\ afError = NoStageError
  /\ engine = NoTensors
  /\ started = <<>>
  /\ stageErrors = <<>>
  /\ inputDisposals = 0

\* A variant of allFaces that hands a third argument on to locateFaces.
allFacesForwardingMaxResults ==
  /\ afPc = "idle"
  /\ \E input \in PipelineInputs, minConfidence \in MinConfidences,
        maxResults \in MaxResultsArgs :
       /\ afInput' = input
       /\ afMinConfidence' = minConfidence
       /\ afMaxResults' = maxResults
       /\ detectCall' = [input |-> input, minConfidence |-> minConfidence,
                         maxResults |-> maxResults]
       /\ started' = <<Started("detect", input)>>
  /\ afPc' = "detect"
  /\ UNCHANGED <<tniVars, inputDisposals, detections, faceTensors, faceLandmarksByFace, alignedFaceBoxes,
                 alignedFaceTensors, recog, recogValue, recogOrder, afResult, afError,
                 engine, stageErrors>>

\* A caller calls the pipeline; it calls locateFaces and suspends: line 14-19.
allFaces ==
  /\ afPc = "idle"
  /\ \E input \in PipelineInputs, minConfidence \in MinConfidences,
        maxResults \in MaxResultsArgs :
       /\ afInput' = input
       /\ afMinConfidence' = minConfidence
       /\ afMaxResults' = maxResults
       /\ detectCall' = [input |-> input, minConfidence |-> minConfidence,
                         maxResults |-> NoMaxResults]
       /\ started' = <<Started("detect", input)>>
  /\ afPc' = "detect"
  /\ UNCHANGED <<tniVars, inputDisposals, detections, faceTensors, faceLandmarksByFace, alignedFaceBoxes,
                 alignedFaceTensors, recog, recogValue, recogOrder, afResult, afError,
                 engine, stageErrors>>

\* The stage the pipeline is suspended at throws: the call is rejected.
stageFails(stage) ==
  /\ afPc' = "failed"
  /\ afError' = StageError(stage, 0)
  /\ stageErrors' = Append(stageErrors, StageError(stage, 0))
  /\ UNCHANGED <<tniVars, inputDisposals, afInput, afMinConfidence, afMaxResults, detectCall, detections,
                 faceTensors, faceLandmarksByFace, alignedFaceBoxes, alignedFaceTensors,
                 recog, recogValue, recogOrder, afResult, engine, started>>

\* A variant of DetectFails: the error is caught and an empty list returned.
DetectFailsSwallowed ==
  /\ afPc = "detect"
  /\ afPc' = "done"
  /\ stageErrors' = Append(stageErrors, StageError("detect", 0))
  /\ UNCHANGED <<tniVars, inputDisposals, afInput, afMinConfidence, afMaxResults, detectCall, detections,
                 faceTensors, faceLandmarksByFace, alignedFaceBoxes, alignedFaceTensors,
                 recog, recogValue, recogOrder, afResult, afError, engine, started>>

\* await detectionNet.locateFaces(...) throws: line 19.
DetectFails ==
  /\ afPc = "detect"
  /\ stageFails("detect")

\* await extractFaceTensors(input, detections) throws: line 21.
CropRawFails ==
  /\ afPc = "cropRaw"
  /\ stageFails("cropRaw")

\* A variant of LandmarkFails that disposes the raw crops on the way out
\* (the dispose in a finally block).
LandmarkFailsReleasing ==
  /\ afPc = "landmark"
  /\ afPc' = "failed"
  /\ afError' = StageError("landmark", 0)
  /\ stageErrors' = Append(stageErrors, StageError("landmark", 0))
  /\ engine' = forEachDispose(engine, faceTensors)
  /\ UNCHANGED <<tniVars, inputDisposals, afInput, afMinConfidence, afMaxResults,
                 detectCall, detections, faceTensors, faceLandmarksByFace,
                 alignedFaceBoxes, alignedFaceTensors, recog, recogValue, recogOrder,
                 afResult, started>>

\* await landmarkNet.detectLandmarks(faceTensors) throws: line 27.
LandmarkFails ==
  /\ afPc = "landmark"
  /\ stageFails("landmark")

\* await extractFaceTensors(input, alignedFaceBoxes) throws: line 34.
CropAlignedFails ==
  /\ afPc = "cropAligned"
  /\ stageFails("cropAligned")

\* locateFaces returns; extractFaceTensors(input, detections) is called: line 19-21.
DetectDone ==
  /\ afPc = "detect"
  /\ \E d \in locateFaces(detectCall) : detections' = d
  /\ started' = Append(started, Started("cropRaw", afInput))
  /\ afPc' = "cropRaw"
  /\ UNCHANGED <<tniVars, inputDisposals, afInput, afMinConfidence, afMaxResults, detectCall, faceTensors,
                 faceLandmarksByFace, alignedFaceBoxes, alignedFaceTensors, recog,
                 recogValue, recogOrder, afResult, afError, engine, stageErrors>>

\* extractFaceTensors returns; detectLandmarks(faceTensors) is called: line 21-27.
CropRawDone ==
  /\ afPc = "cropRaw"
  /\ faceTensors' = extractFaceTensors(engine, afInput, detections)
  /\ engine' = allocate(engine, Len(detections))
  /\ started' = Append(started, Started("landmark", "-"))
  /\ afPc' = "landmark"
  /\ UNCHANGED <<tniVars, inputDisposals, afInput, afMinConfidence, afMaxResults, detectCall, detections,
                 faceLandmarksByFace, alignedFaceBoxes, alignedFaceTensors, recog,
                 recogValue, recogOrder, afResult, afError, stageErrors>>

\* A variant of LandmarkDone that leaves the raw crops allocated.
LandmarkDoneKeepsCrops ==
  /\ afPc = "landmark"
  /\ faceLandmarksByFace' = [i \in 1..Len(faceTensors) |-> Landmarks(faceTensors[i])]
  /\ alignedFaceBoxes' =
       [i \in 1..Len(faceTensors) |->
          align(Landmarks(faceTensors[i]), getBox(detections[i]))]
  /\ started' = started \o <<Started("align", "-"), Started("cropAligned", afInput)>>
  /\ afPc' = "cropAligned"
  /\ UNCHANGED <<tniVars, inputDisposals, afInput, afMinConfidence, afMaxResults,
                 detectCall, detections, faceTensors, alignedFaceTensors, recog,
                 recogValue, recogOrder, afResult, afError, engine, stageErrors>>

\* detectLandmarks returns; the raw crops are disposed, the aligned boxes
\* computed and extractFaceTensors(input, alignedFaceBoxes) called: line 27-34.
LandmarkDone ==
  /\ afPc = "landmark"
  /\ faceLandmarksByFace' = [i \in 1..Len(faceTensors) |-> Landmarks(faceTensors[i])]
  /\ engine' = forEachDispose(engine, faceTensors)
  /\ alignedFaceBoxes' =
       [i \in 1..Len(faceTensors) |->
          align(Landmarks(faceTensors[i]), getBox(detections[i]))]
  /\ started' = started \o <<Started("align", "-"), Started("cropAligned", afInput)>>
  /\ afPc' = "cropAligned"
  /\ UNCHANGED <<tniVars, inputDisposals, afInput, afMinConfidence, afMaxResults, detectCall, detections,
                 faceTensors, alignedFaceTensors, recog, recogValue, recogOrder,
                 afResult, afError, stageErrors>>

\* extractFaceTensors returns; computeFaceDescriptor is called on every
\* aligned crop and the pipeline suspends at Promise.all: line 34-38.
CropAlignedDone ==
  /\ afPc = "cropAligned"
  /\ alignedFaceTensors' = extractFaceTensors(engine, afInput, alignedFaceBoxes)
  /\ engine' = allocate(engine, Len(alignedFaceBoxes))
  /\ recog' = [i \in 1..Len(alignedFaceBoxes) |-> "pending"]
  /\ started' = Append(started, Started("recognize", "-"))
  /\ afPc' = "recognize"
  /\ UNCHANGED <<tniVars, inputDisposals, afInput, afMinConfidence, afMaxResults, detectCall, detections,
                 faceTensors, faceLandmarksByFace, alignedFaceBoxes, recogValue,
                 recogOrder, afResult, afError, stageErrors>>

\* computeFaceDescriptor call i resolves.  The calls in flight go on after
\* the pipeline has failed.
RecognizeResolves(i) ==
  /\ afPc \in {"recognize", "failed"}
  /\ i \in DOMAIN recog /\ recog[i] = "pending"
  /\ recog' = [recog EXCEPT ![i] = "resolved"]
  /\ recogValue' = recogValue @@ (i :> Descriptor(alignedFaceTensors[i]))
  /\ recogOrder' = Append(recogOrder, i)
  /\ UNCHANGED <<tniVars, inputDisposals, afPc, afInput, afMinConfidence, afMaxResults, detectCall, detections,
                 faceTensors, faceLandmarksByFace, alignedFaceBoxes, alignedFaceTensors,
                 afResult, afError, engine, started, stageErrors>>

\* computeFaceDescriptor call i rejects: Promise.all rejects with the first
\* rejection, and with it the pipeline.
RecognizeRejects(i) ==
  /\ afPc \in {"recognize", "failed"}
  /\ i \in DOMAIN recog /\ recog[i] = "pending"
  /\ recog' = [recog EXCEPT ![i] = "rejected"]
  /\ recogOrder' = Append(recogOrder, i)
  /\ stageErrors' = Append(stageErrors, StageError("recognize", i - 1))
  /\ IF afPc = "recognize"
     THEN /\ afPc' = "failed"
          /\ afError' = StageError("recognize", i - 1)
     ELSE UNCHANGED <<tniVars, inputDisposals, afPc, afError>>
  /\ UNCHANGED <<tniVars, inputDisposals, afInput, afMinConfidence, afMaxResults, detectCall, detections,
                 faceTensors, faceLandmarksByFace, alignedFaceBoxes, alignedFaceTensors,
                 recogValue, afResult, engine, started>>

\* A variant of RecognizeDone that does not wait for the recognizer calls
\* (the await before Promise.all left out): a descriptor not there yet is
\* a pending promise.
RecognizeDoneNotAwaited ==
  /\ afPc = "recognize"
  /\ engine' = forEachDispose(engine, alignedFaceTensors)
  /\ afResult' =
       [i \in 1..Len(detections) |->
          FullFaceDescription(detections[i],
                              shiftByPoint(faceLandmarksByFace[i], getBox(detections[i])),
                              IF i \in DOMAIN recogValue THEN recogValue[i]
                              ELSE [input |-> afInput, region |-> "pending"])]
  /\ started' = Append(started, Started("assemble", "-"))
  /\ afPc' = "done"
  /\ UNCHANGED <<tniVars, inputDisposals, afInput, afMinConfidence, afMaxResults,
                 detectCall, detections, faceTensors, faceLandmarksByFace,
                 alignedFaceBoxes, alignedFaceTensors, recog, recogValue, recogOrder,
                 afError, stageErrors>>

\* A variant of RecognizeDone that disposes an input marked managed once the
\* descriptors are there.
RecognizeDoneReleasingManaged ==
  /\ afPc = "recognize"
  /\ \A i \in DOMAIN recog : recog[i] = "resolved"
  /\ engine' = forEachDispose(engine, alignedFaceTensors)
  /\ inputDisposals' = IF afInput \in managedInputs THEN inputDisposals + 1
                       ELSE inputDisposals
  /\ afResult' =
       LET descriptors == promiseAll(recogValue, recogOrder)
       IN  [i \in 1..Len(detections) |->
              FullFaceDescription(detections[i],
                                  shiftByPoint(faceLandmarksByFace[i], getBox(detections[i])),
                                  descriptors[i])]
  /\ started' = Append(started, Started("assemble", "-"))
  /\ afPc' = "done"
  /\ UNCHANGED <<tniVars, afInput, afMinConfidence, afMaxResults, detectCall, detections,
                 faceTensors, faceLandmarksByFace, alignedFaceBoxes, alignedFaceTensors,
                 recog, recogValue, recogOrder, afError, stageErrors>>

\* Promise.all resolves; the aligned crops are disposed and the
\* descriptions assembled and returned: line 36-47.
RecognizeDone ==
  /\ afPc = "recognize"
  /\ \A i \in DOMAIN recog : recog[i] = "resolved"
  /\ engine' = forEachDispose(engine, alignedFaceTensors)
  /\ afResult' =
       LET descriptors == promiseAll(recogValue, recogOrder)
       IN  [i \in 1..Len(detections) |->
              FullFaceDescription(detections[i],
                                  shiftByPoint(faceLandmarksByFace[i], getBox(detections[i])),
                                  descriptors[i])]
  /\ started' = Append(started, Started("assemble", "-"))
  /\ afPc' = "done"
  /\ UNCHANGED <<tniVars, inputDisposals, afInput, afMinConfidence, afMaxResults, detectCall, detections,
                 faceTensors, faceLandmarksByFace, alignedFaceBoxes, alignedFaceTensors,
                 recog, recogValue, recogOrder, afError, stageErrors>>

NextAllFaces ==
  \/ allFaces
  \/ DetectDone
  \/ DetectFails
  \/ CropRawDone
  \/ CropRawFails
  \/ LandmarkDone
  \/ LandmarkFails
  \/ CropAlignedDone
  \/ CropAlignedFails
  \/ \E i \in 1..MaxFaces : RecognizeResolves(i)
  \/ \E i \in 1..MaxFaces : RecognizeRejects(i)
  \/ RecognizeDone

vars == <<tniVars, afVars>>

Init == tniInit /\ afInit

\* Calls of toNetInput.
Spec == Init /\ [][NextToNetInput]_vars

\* Calls of the pipeline.
SpecAllFaces == Init /\ [][NextAllFaces]_vars

(***************************************************************************)
(* The claims about toNetInput, checked under Spec.                        *)
(***************************************************************************)

\* The NetInput the call returned.
returnedNetInput == heap[tniResult]

\* A resolvable id, a media element, a 3D tensor: valid wherever they stand.
validAnywhere(e) ==
  \/ e.kind \in {"media", "t3"}
  \/ e.kind = "string" /\ e.v \in DOMAIN Dom

\* What the element of a NetInput built from e has to be.
correspondsTo(e, wrapped) ==
  \/ e.kind \in {"media", "t3"} /\ wrapped = e
  \/ e.kind = "string" /\ wrapped.kind = "media" /\ wrapped.v = Dom[e.v]
  \/ e.kind = "t4" /\ wrapped.kind = "t3" /\ wrapped.v = e.v

validArrayInput ==
  /\ tniPc # "idle"
  /\ isArray(tniInputs)
  /\ Len(tniInputs.elems) >= 1
  /\ \A i \in 1..Len(tniInputs.elems) :
       \/ validAnywhere(tniInputs.elems[i])
       \/ tniInputs.elems[i].kind = "t4" /\ tniInputs.elems[i].batch = 1

\* C1: a call with an array of N >= 1 valid elements (media, resolvable ids,
\* 3D tensors, 4D tensors of batch size 1) never fails, and the NetInput it
\* returns holds exactly N elements, in array form, element i built from
\* input element i.
C1_ValidArrayKeepsOrder ==
  validArrayInput =>
    /\ tniPc \in {"awaiting", "returned"}
    /\ tniError = NoError
    /\ tniPc = "returned" =>
         /\ Len(returnedNetInput.inputs) = Len(tniInputs.elems)
         /\ returnedNetInput.isBatchInput = TRUE
         /\ \A i \in 1..Len(tniInputs.elems) :
              correspondsTo(tniInputs.elems[i], returnedNetInput.inputs[i])

C1_Witness ==
  /\ validArrayInput
  /\ tniPc = "returned"
  /\ Len(tniInputs.elems) = 2
  /\ tniInputs.elems[1].kind = "t4"
  /\ tniInputs.elems[2].kind = "string"

validSingleInput ==
  /\ tniPc # "idle"
  /\ tniInputs.form = "single"
  /\ \/ validAnywhere(tniInputs.elems[1])
     \/ tniInputs.elems[1].kind = "t4"

\* C2: a call with one valid value that is not an array (a media element, a
\* resolvable id, a 3D tensor, a 4D tensor of any batch size) never fails,
\* and the NetInput it returns wraps exactly one element, built from that
\* value, in non-array form.
C2_ValidSingleIsOneElement ==
  validSingleInput =>
    /\ tniPc \in {"awaiting", "returned"}
    /\ tniError = NoError
    /\ tniPc = "returned" =>
         /\ Len(returnedNetInput.inputs) = 1
         /\ returnedNetInput.isBatchInput = FALSE
         /\ \/ tniInputs.elems[1].kind = "t4"
                 /\ returnedNetInput.inputs[1] = tniInputs.elems[1]
            \/ tniInputs.elems[1].kind # "t4"
                 /\ correspondsTo(tniInputs.elems[1], returnedNetInput.inputs[1])

C2_Witness ==
  /\ validSingleInput
  /\ tniPc = "returned"
  /\ tniInputs.elems[1].kind = "media"

\* The 0-based positions of the 4D tensors of batch size # 1 in the input.
wrongBatchAt ==
  {i \in 0..Len(tniInputs.elems) - 1 :
     tniInputs.elems[i + 1].kind = "t4" /\ tniInputs.elems[i + 1].batch # 1}

\* C3: a call with an array that contains a 4D tensor of batch size # 1
\* fails with the invalid-batch-size error, the error cites the position of
\* such an element and its batch size, and no NetInput is created.
C3_WrongBatchInArrayFails ==
  (tniPc # "idle" /\ isArray(tniInputs) /\ wrongBatchAt # {}) =>
    /\ tniPc = "failed"
    /\ tniError.type = "batchSize"
    /\ \E k \in wrongBatchAt :
         /\ tniError.hint = <<k>>
         /\ tniError.batchSize = tniInputs.elems[k + 1].batch
    /\ tniResult = 0
    /\ heap = <<>>

C3_Witness ==
  /\ tniPc = "failed"
  /\ isArray(tniInputs)
  /\ Len(tniInputs.elems) = 2
  /\ wrongBatchAt = {1}
  /\ tniInputs.elems[1].kind = "other"

\* The 0-based positions of the unresolvable ids in the input.
unresolvableAt ==
  {i \in 0..Len(tniInputs.elems) - 1 :
     tniInputs.elems[i + 1].kind = "string" /\ tniInputs.elems[i + 1].v \notin DOMAIN Dom}

\* The 0-based positions of the values of no accepted type in the input.
unsupportedAt ==
  {i \in 0..Len(tniInputs.elems) - 1 : tniInputs.elems[i + 1].kind = "other"}

\* C4, as stated: a call with an array that contains one unresolvable id, at
\* position k, fails with the unresolved-identifier error citing k and the id.
C4_AsStated ==
  (tniPc # "idle" /\ isArray(tniInputs) /\ Cardinality(unresolvableAt) = 1) =>
    \A k \in unresolvableAt :
      /\ tniPc = "failed"
      /\ tniError.type = "unresolved"
      /\ tniError.hint = <<k>>
      /\ tniError.id = tniInputs.elems[k + 1].v

\* C4, amended: a call with an array that contains one unresolvable id, at
\* position k, no 4D tensor of batch size # 1, and no value of an
\* unsupported type before position k, fails with the unresolved-identifier
\* error citing k and the id.
C4_UnresolvedIdFirstInvalid ==
  (tniPc # "idle" /\ isArray(tniInputs) /\ Cardinality(unresolvableAt) = 1
     /\ wrongBatchAt = {}) =>
    \A k \in unresolvableAt :
      (\A j \in unsupportedAt : j > k) =>
        /\ tniPc = "failed"
        /\ tniError.type = "unresolved"
        /\ tniError.hint = <<k>>
        /\ tniError.id = tniInputs.elems[k + 1].v
        /\ tniResult = 0

C4_Witness ==
  /\ tniPc = "failed"
  /\ isArray(tniInputs)
  /\ Len(tniInputs.elems) = 2
  /\ unresolvableAt = {1}
  /\ tniInputs.elems[1].kind = "media"
  /\ tniError.type = "unresolved"

\* C5: a call with an empty array fails with the empty-input error, whatever
\* manageCreatedInput is, and creates no NetInput.
C5_EmptyArrayFails ==
  (tniPc # "idle" /\ isArray(tniInputs) /\ tniInputs.elems = <<>>) =>
    /\ tniPc = "failed"
    /\ tniError = Err("empty", <<>>, 0, "")
    /\ tniResult = 0
    /\ heap = <<>>

C5_Witness ==
  /\ tniPc = "failed"
  /\ isArray(tniInputs)
  /\ tniInputs.elems = <<>>
  /\ tniManage = TRUE

\* C6: a call that is handed a NetInput returns that instance in the same
\* step: no NetInput is created, no instance changes (the managed flag
\* included), no load is awaited, no error is raised; handed the instance
\* the call before returned, it returns the same instance again.
C6_NetInputReturnedAsIs ==
  [][isNetInput(tniInputs') /\ resubmits' # resubmits =>
       /\ tniPc' = "returned"
       /\ tniResult' = tniInputs'.ref
       /\ heap' = heap
       /\ tniWaits' = tniWaits /\ tniLoaded' = tniLoaded
       /\ tniError' = tniError
       /\ (tniInputs'.ref = tniResult => tniResult' = tniResult)]_vars

C6_Witness ==
  /\ isNetInput(tniInputs)
  /\ tniPc = "returned"
  /\ resubmits = 2
  /\ tniManage = TRUE
  /\ returnedNetInput.managed = FALSE

\* The 1-based positions of the input whose resolved value is a media element.
mediaAt ==
  {i \in 1..Len(tniInputs.elems) :
     \/ tniInputs.elems[i].kind = "media"
     \/ tniInputs.elems[i].kind = "string" /\ tniInputs.elems[i].v \in DOMAIN Dom}

\* The call went through the await (it was handed neither a NetInput nor a
\* single 4D tensor, and validation passed).
wentThroughAwait == tniPc = "awaiting" \/ (tniPc = "returned" /\ tniInputs.form # "netinput"
                                             /\ ~(tniInputs.form = "single"
                                                    /\ tniInputs.elems[1].kind = "t4"))

\* C11: while the call is suspended, a load-wait is outstanding for every
\* media element at once and for no tensor; the call returns only when every
\* media element has finished loading; and the NetInput returned holds the
\* elements in input order, whatever order the loads finished in.
C11_ReturnsAfterAllLoads ==
  wentThroughAwait =>
    /\ tniWaits = mediaAt
    /\ tniLoaded \subseteq tniWaits
    /\ tniPc = "returned" =>
         /\ tniLoaded = mediaAt
         /\ Len(returnedNetInput.inputs) = Len(tniInputs.elems)
         /\ \A i \in 1..Len(tniInputs.elems) :
              correspondsTo(tniInputs.elems[i], returnedNetInput.inputs[i])

C11_Witness ==
  /\ tniPc = "returned"
  /\ Len(tniInputs.elems) = 2
  /\ tniInputs.elems[1].kind = "string"
  /\ tniInputs.elems[2].kind = "media"
  /\ tniLoadOrder = <<2, 1>>

\* C14: a call fails only in the step it is made in, before the await, with
\* one of the four validation errors; in that step no load-wait is started,
\* no load has finished and no NetInput is created.
C14_ValidationFailsBeforeWaits ==
  [][tniPc' = "failed" =>
       /\ tniPc \in {"idle", "failed"}
       /\ tniError'.type \in {"empty", "batchSize", "unresolved", "unsupported"}
       /\ tniWaits' = {}
       /\ tniLoaded' = {}
       /\ heap' = <<>>
       /\ tniResult' = 0]_vars

C14_Witness ==
  /\ tniPc = "failed"
  /\ tniError.type = "unsupported"
  /\ Len(tniInputs.elems) = 2
  /\ tniInputs.elems[1].kind = "media"
  /\ tniWaits = {}

\* C15: an unresolved-identifier or unsupported-type error cites the position
\* of an element it is about when the input was an array, of whatever
\* length, and cites no position when the input was a single value.
C15_IndexCitedIffArray ==
  (tniPc = "failed" /\ tniError.type \in {"unresolved", "unsupported"}) =>
    /\ isArray(tniInputs) =>
         \E k \in (IF tniError.type = "unresolved" THEN unresolvableAt ELSE unsupportedAt) :
           tniError.hint = <<k>>
    /\ ~isArray(tniInputs) => tniError.hint = <<>>

C15_Witness ==
  /\ tniPc = "failed"
  /\ isArray(tniInputs)
  /\ Len(tniInputs.elems) = 1
  /\ tniError.type = "unresolved"
  /\ tniError.hint = <<0>>

\* C16: a NetInput the call created, from a single 4D tensor or from the
\* resolved elements, is managed exactly if manageCreatedInput is true.
C16_ManagedIffAsked ==
  (tniPc = "returned" /\ ~isNetInput(tniInputs)) =>
    /\ tniResult = Len(heap)
    /\ returnedNetInput.managed = tniManage

C16_Witness ==
  /\ tniPc = "returned"
  /\ tniInputs.form = "single"
  /\ tniInputs.elems[1].kind = "t4"
  /\ tniManage = TRUE
  /\ returnedNetInput.managed = TRUE

\* The 0-based positions of the elements that are neither media nor a 3D
\* tensor once resolved and reduced.
invalidTypeAt == unresolvableAt \cup unsupportedAt

\* C19: a call with an array of several invalid elements reports one error:
\* the invalid-batch-size error of the lowest 4D tensor of batch size # 1 if
\* there is one, whatever stands before it; otherwise the error of the
\* lowest element that is neither media nor a 3D tensor.
C19_ErrorByPhaseThenIndex ==
  (tniPc # "idle" /\ isArray(tniInputs) /\ wrongBatchAt \cup invalidTypeAt # {}) =>
    /\ tniPc = "failed"
    /\ IF wrongBatchAt # {}
       THEN /\ tniError.type = "batchSize"
            /\ tniError.hint = <<Min(wrongBatchAt)>>
       ELSE /\ tniError.hint = <<Min(invalidTypeAt)>>
            /\ tniError.type =
                 IF Min(invalidTypeAt) \in unresolvableAt THEN "unresolved"
                 ELSE "unsupported"

C19_Witness ==
  /\ tniPc = "failed"
  /\ isArray(tniInputs)
  /\ Len(tniInputs.elems) = 2
  /\ tniInputs.elems[1].kind = "string"
  /\ wrongBatchAt = {1}
  /\ unresolvableAt = {0}
  /\ tniError.type = "batchSize"

(***************************************************************************)
(* The claims about the pipeline, checked under SpecAllFaces.              *)
(***************************************************************************)

\* The crop extractFaceTensors(input, <<region>>) cuts, whatever its id.
cropOf(input, region) == [id |-> 0, input |-> input, region |-> region]

\* The description of detection d of a call on input.
descriptionOf(input, d) ==
  LET landmarks == Landmarks(cropOf(input, d))
      alignedBox == align(landmarks, getBox(d))
  IN  FullFaceDescription(d, shiftByPoint(landmarks, getBox(d)),
                          Descriptor(cropOf(input, alignedBox)))

\* C7: a successful run returns one FullFaceDescription per detection, in
\* detection order: entry i holds detection i, landmarks i shifted by the
\* box of detection i, and the descriptor of the crop of aligned box i,
\* whatever order the recognizer calls completed in.
C7_OneDescriptionPerDetection ==
  afPc = "done" =>
    /\ Len(afResult) = Len(detections)
    /\ \A i \in 1..Len(detections) : afResult[i] = descriptionOf(afInput, detections[i])

C7_Witness ==
  /\ afPc = "done"
  /\ Len(detections) = 2
  /\ detections[1] # detections[2]
  /\ recogOrder = <<2, 1>>

\* C8: after a successful run no crop is allocated any more: every tensor
\* extractFaceTensors produced, raw or aligned, was disposed exactly once.
C8_CropsReleasedOnce ==
  afPc = "done" =>
    /\ engine.live = {}
    /\ Len(engine.disposed) = Len(faceTensors) + Len(alignedFaceTensors)
    /\ \A t \in 1..Len(engine.disposed) : engine.disposed[t] = 1

C8_Witness ==
  /\ afPc = "done"
  /\ Len(faceTensors) = 2
  /\ Len(alignedFaceTensors) = 2

\* C9, as stated: a maxResults argument of the call is handed to the detect
\* stage, and the list returned has at most maxResults entries.
C9_AsStated ==
  (afPc = "done" /\ afMaxResults.given) =>
    /\ detectCall.maxResults = afMaxResults
    /\ Len(afResult) <= afMaxResults.n

\* C9, amended: the pipeline takes an input and minConfidence only; it calls
\* the detect stage with these two and no maxResults, whatever else the
\* caller passes, and returns as many entries as the detect stage returned.
C9_NoMaxResultsHandedOn ==
  afPc # "idle" =>
    /\ detectCall = [input |-> afInput, minConfidence |-> afMinConfidence,
                     maxResults |-> NoMaxResults]
    /\ afPc = "done" => Len(afResult) = Len(detections)

C9_Witness ==
  /\ afPc = "done"
  /\ afMaxResults.given
  /\ Len(afResult) > afMaxResults.n

\* The stages in the order the pipeline starts them.
StageOrder ==
  <<"detect", "cropRaw", "landmark", "align", "cropAligned", "recognize", "assemble">>

\* C10: once a stage has thrown, the call is rejected with the first error
\* thrown, it returns no description, the stage that threw is the last one
\* started, and no stage was started twice.
C10_FailureAbortsRun ==
  stageErrors # <<>> =>
    /\ afPc = "failed"
    /\ afError = stageErrors[1]
    /\ afResult = <<>>
    /\ Len(started) <= Len(StageOrder)
    /\ \A k \in 1..Len(started) : started[k].stage = StageOrder[k]
    /\ started[Len(started)].stage = afError.stage

C10_Witness ==
  /\ afPc = "failed"
  /\ Len(stageErrors) = 2
  /\ afError = StageError("recognize", 1)
  /\ recogOrder = <<2, 1>>
  /\ recog = <<"rejected", "rejected">>

\* The stages that are awaited: afPc is one of them while it is not complete.
AwaitedStages == {"detect", "cropRaw", "landmark", "cropAligned", "recognize"}

\* C12: the stages start in the order detect, cropRaw, landmark, align,
\* cropAligned, recognize, assemble, each once; the one stage that is not
\* complete is the last one started, so none starts before the one before it
\* is complete; and assemble starts only when every recognizer call, one
\* per detection, has resolved.
C12_StagesInOrder ==
  /\ Len(started) <= Len(StageOrder)
  /\ \A k \in 1..Len(started) : started[k].stage = StageOrder[k]
  /\ afPc = "idle" <=> started = <<>>
  /\ afPc \in AwaitedStages => started[Len(started)].stage = afPc
  /\ afPc = "done" => Len(started) = Len(StageOrder)
  /\ Len(started) = Len(StageOrder) =>
       /\ Len(recog) = Len(detections)
       /\ \A i \in DOMAIN recog : recog[i] = "resolved"

C12_Witness ==
  /\ afPc = "done"
  /\ Len(started) = Len(StageOrder)
  /\ Len(detections) = 2
  /\ recogOrder = <<2, 1>>

\* The raw and the aligned crops, by the tensor's id.
rawCrops == {faceTensors[i].id : i \in DOMAIN faceTensors}
alignedCrops == {alignedFaceTensors[i].id : i \in DOMAIN alignedFaceTensors}
released == {t \in 1..Len(engine.disposed) : engine.disposed[t] > 0}

\* C13: a raw crop is released only once the landmark stage is complete,
\* and every raw crop is released before an aligned crop is allocated, so
\* that no raw crop and aligned crop are allocated at the same time; an
\* aligned crop is released only once every recognizer call has resolved.
C13_RawReleasedBeforeAligned ==
  /\ rawCrops \cap released # {} =>
       /\ Len(started) >= 4
       /\ Len(faceLandmarksByFace) = Len(faceTensors)
  /\ alignedCrops # {} => rawCrops \cap engine.live = {}
  /\ ~(rawCrops \cap engine.live # {} /\ alignedCrops \cap engine.live # {})
  /\ alignedCrops \cap released # {} =>
       /\ afPc = "done"
       /\ \A i \in DOMAIN recog : recog[i] = "resolved"

C13_Witness ==
  /\ afPc = "recognize"
  /\ Cardinality(rawCrops) = 2
  /\ rawCrops \subseteq released
  /\ Cardinality(alignedCrops \cap engine.live) = 2
  /\ recog = <<"resolved", "pending">>

\* C17: in a run the landmark stage failed in, the raw crops stay allocated
\* for good; in a run a recognizer call failed in, the aligned crops stay
\* allocated for good: the pipeline disposes neither.
C17_CropsLeakOnFailure ==
  /\ afError.stage = "landmark" =>
       /\ Cardinality(rawCrops) = Len(detections)
       /\ rawCrops \subseteq engine.live
       /\ rawCrops \cap released = {}
  /\ afError.stage = "recognize" =>
       /\ Cardinality(alignedCrops) = Len(detections)
       /\ alignedCrops \subseteq engine.live
       /\ alignedCrops \cap released = {}

C17_Witness ==
  /\ afPc = "failed"
  /\ afError.stage = "recognize"
  /\ recog = <<"rejected", "resolved">>
  /\ Cardinality(alignedCrops \cap engine.live) = 2

\* The stages that are handed the input.
InputStages == {"detect", "cropRaw", "cropAligned"}

\* C18: the pipeline never disposes the input it was handed, managed or
\* not, in a run that succeeds or fails: it hands that same value to the
\* detect stage and to both crop extractions, and the tensors it disposes
\* are crops extractFaceTensors returned.
C18_InputNeverReleased ==
  afPc # "idle" =>
    /\ inputDisposals = 0
    /\ detectCall.input = afInput
    /\ \A k \in 1..Len(started) :
         started[k].stage \in InputStages => started[k].input = afInput
    /\ \A i \in DOMAIN faceTensors : faceTensors[i].input = afInput
    /\ \A i \in DOMAIN alignedFaceTensors : alignedFaceTensors[i].input = afInput
    /\ released \subseteq rawCrops \cup alignedCrops

C18_Witness ==
  /\ afPc = "done"
  /\ afInput \in managedInputs
  /\ Cardinality(released) = 4
  /\ inputDisposals = 0
====
